---------------------------- MODULE Spec2Model ----------------------------
(***************************************************************************)
(* The terminal prompt toolkit of plyx (src/src/tui.rs): the RawGuard      *)
(* session guard, the ranking filter, the redraw functions and the five    *)
(* prompt state machines confirm, text_input, search_select,               *)
(* feature_select and add_widget.                                          *)
(*                                                                         *)
(* A behaviour is one call of one prompt function: Init chooses the        *)
(* function and its arguments, RawGuardEnter acquires the terminal, the    *)
(* *Init step runs the code up to the first blocking event::read(), and    *)
(* every later step reads one terminal event and runs the whole handler    *)
(* for it, the trailing redraw included.  Strings are sequences of         *)
(* one-character strings.  Option values are <<>> (None) and <<x>> (Some). *)
(***************************************************************************)
EXTENDS Integers, Sequences, FiniteSets, TLC

\* ------------------------------------------------------------------ bounds
MaxFeatures == 2        \* longest feature list passed to a prompt
MaxFonts    == 2        \* longest font list passed to a prompt
MaxQuery    == 2        \* longest text typed into a buffer or query
MaxItems    == 3        \* longest candidate list passed to filter on its own

\* --------------------------------------------------------------- constants
VISIBLE_RESULTS == 6
INTERRUPTED == 130

\* ----------------------------------------------------------------- strings
None == <<>>
Some(x) == <<x>>

Range(s) == {s[i] : i \in 1..Len(s)}

\* char::to_lowercase over the alphabet of the model
LowerChar(c) ==
    CASE c = "R" -> "r"
      [] c = "O" -> "o"
      [] OTHER   -> c

\* the capital sigma and its two lowercase forms
SIGMA == "U+03A3"
sigma == "U+03C3"
final_sigma == "U+03C2"

\* the Cased property of a character: in the alphabet of the model every
\* character but the space is a cased letter
Cased(c) == c # " "

\* the sigma at position i is preceded by a cased letter and not followed by one
is_word_final(s, i) ==
    /\ i > 1 /\ Cased(s[i - 1])
    /\ ~(i < Len(s) /\ Cased(s[i + 1]))

\* str::to_lowercase: character by character, except that a capital sigma
\* becomes the final sigma at the end of a word
to_lowercase(s) ==
    [i \in 1..Len(s) |->
        IF s[i] = SIGMA THEN (IF is_word_final(s, i) THEN final_sigma ELSE sigma)
        ELSE LowerChar(s[i])]

starts_with(s, p) == Len(p) <= Len(s) /\ SubSeq(s, 1, Len(p)) = p

contains(s, p) == \E i \in 0..(Len(s) - Len(p)) : SubSeq(s, i + 1, i + Len(p)) = p

\* faulty variant of filter_loop: the contains group is put first
RECURSIVE filter_loop_contains_first(_, _, _, _, _)
filter_loop_contains_first(items, q, i, starts, cont) ==
    IF i > Len(items) THEN cont \o starts
    ELSE LET lower == to_lowercase(items[i]) IN
         IF starts_with(lower, q)
           THEN filter_loop_contains_first(items, q, i + 1, Append(starts, items[i]), cont)
         ELSE IF contains(lower, q)
           THEN filter_loop_contains_first(items, q, i + 1, starts, Append(cont, items[i]))
         ELSE filter_loop_contains_first(items, q, i + 1, starts, cont)

\* faulty variant of filter_loop: the item is compared as it is written
RECURSIVE filter_loop_case_kept(_, _, _, _, _)
filter_loop_case_kept(items, q, i, starts, cont) ==
    IF i > Len(items) THEN starts \o cont
    ELSE IF starts_with(items[i], q)
           THEN filter_loop_case_kept(items, q, i + 1, Append(starts, items[i]), cont)
         ELSE IF contains(items[i], q)
           THEN filter_loop_case_kept(items, q, i + 1, starts, Append(cont, items[i]))
         ELSE filter_loop_case_kept(items, q, i + 1, starts, cont)

\* the for loop of filter: item i is pushed to starts or to contains
RECURSIVE filter_loop(_, _, _, _, _)
filter_loop(items, q, i, starts, cont) ==
    IF i > Len(items) THEN starts \o cont
    ELSE LET lower == to_lowercase(items[i]) IN
         IF starts_with(lower, q)
           THEN filter_loop(items, q, i + 1, Append(starts, items[i]), cont)
         ELSE IF contains(lower, q)
           THEN filter_loop(items, q, i + 1, starts, Append(cont, items[i]))
         ELSE filter_loop(items, q, i + 1, starts, cont)

\* faulty variant of filter: the empty query matches nothing
filter_empty_matches_none(items, query) ==
    IF query = <<>> THEN <<>>
    ELSE filter_loop(items, to_lowercase(query), 1, <<>>, <<>>)

filter(items, query) ==
    IF query = <<>> THEN items
    ELSE filter_loop(items, to_lowercase(query), 1, <<>>, <<>>)

first(s) == IF Len(s) = 0 THEN None ELSE Some(s[1])

\* faulty variant of take: nothing is cut off
take_all(s, n) == s

\* .iter().take(n)
take(s, n) == SubSeq(s, 1, IF Len(s) < n THEN Len(s) ELSE n)

\* ------------------------------------------------------------------ inputs
FeatureCatalog == <<"a", "b", "c", "d">>
FontCatalog == << <<"o", "r">>, <<"R", "o">>, <<"O", "o">>, <<"r">> >>

FeatureLists == {SubSeq(FeatureCatalog, 1, n) : n \in 0..MaxFeatures}
FontLists == {SubSeq(FontCatalog, 1, n) : n \in {0, MaxFonts}}
\* a candidate list with more entries than VISIBLE_RESULTS
LongFontList == FontCatalog \o << <<"r", "o">>, <<"o">>, <<"r", "r">> >>
KeySets == SUBSET {"a", "b"}
LockedSets == {{}, {"a"}}
InstalledLists == {<<>>, << <<"R", "o">> >>}
Defaults == {<<>>, <<"o", "r">>}
TypedChars == {"r", " "}

\* the candidates and queries filter is called with on its own
FilterItems ==
    {<<"o", "r">>, <<"R", "o">>, <<"O", "o">>, <<"r">>, <<"x", "r">>, <<"o", sigma, "o">>}
FilterLists == UNION {[1..n -> FilterItems] : n \in 0..MaxItems}
FilterQueries ==
    {<<>>, <<"r">>, <<"R">>, <<"o">>, <<"O">>, <<"r", "o">>, <<"R", "O">>, <<"o", "o">>,
     <<"z">>, <<"O", SIGMA>>, <<"O", SIGMA, "O">>}

PromptFns == {"confirm", "text_input", "search_select", "feature_select", "add_widget"}

NoArgs ==
    [features |-> <<>>, pre_checked |-> {}, locked |-> {}, items |-> <<>>,
     installed_fonts |-> <<>>, default |-> <<>>, help |-> FALSE]

ArgsOf(f) ==
    CASE f = "confirm" -> {NoArgs}
      [] f = "text_input" -> {[NoArgs EXCEPT !.default = d] : d \in Defaults}
      [] f = "search_select" ->
            {[NoArgs EXCEPT !.items = it, !.help = h] :
                it \in FontLists \cup {LongFontList}, h \in BOOLEAN}
      [] f = "feature_select" ->
            {[NoArgs EXCEPT !.features = fs, !.pre_checked = pc0, !.locked = lk, !.help = h] :
                fs \in FeatureLists, pc0 \in KeySets, lk \in KeySets, h \in BOOLEAN}
      [] f = "add_widget" ->
            {[NoArgs EXCEPT !.features = fs, !.locked = lk, !.items = it,
                            !.installed_fonts = ins] :
                fs \in FeatureLists, lk \in LockedSets, it \in FontLists,
                ins \in InstalledLists}
            \cup {[NoArgs EXCEPT !.features = <<"a">>, !.items = LongFontList,
                                 !.installed_fonts = << <<"R", "o">> >>]}

\* ------------------------------------------------------------------ events
Key(code) == [code |-> code, ch |-> "", ctrl |-> FALSE]
Char(c) == [code |-> "Char", ch |-> c, ctrl |-> FALSE]
Ctrl(c) == [code |-> "Char", ch |-> c, ctrl |-> TRUE]
NoEvent == Key("None")
ReadErr == Key("ReadErr")
NotAKey == Key("Resize")

\* key.modifiers.contains(KeyModifiers::CONTROL) && key.code == KeyCode::Char('c')
is_ctrl_c(k) == k.ctrl /\ k.code = "Char" /\ k.ch = "c"

ConfirmKeys ==
    {Key("Enter"), Key("Esc"), Key("Up"), Ctrl("c"),
     Char("y"), Char("Y"), Char("n"), Char("N"), Char("c")}

\* the key events of text_input and search_select: a typed character may be
\* outside ASCII
TextKeys ==
    {Key("Up"), Key("Down"), Key("Enter"), Key("Esc"), Key("Backspace"), Key("Tab"),
     Ctrl("c")} \cup {Char(c) : c \in TypedChars \cup {"U+00E9"}}

WidgetKeys ==
    {Key("Up"), Key("Down"), Key("Enter"), Key("Esc"), Key("Backspace"), Key("Tab"),
     Ctrl("c")} \cup {Char(c) : c \in TypedChars}

VARIABLES
    prompt_fn,      \* the prompt function that was called
    args,           \* its arguments
    pc,             \* start, entered, await, returned, exiting, exited, panicked
    raw_mode,       \* terminal: raw mode enabled
    cursor_shown,   \* terminal: cursor visible
    guard,          \* the RawGuard: state none/held/dropped and its cursor_hidden field
    restore_failed, \* the calls of RawGuard::drop that failed (drop discards their results)
    key,            \* the event read by the last step
    wrote,          \* what the last step wrote: nothing, frame, final, failed
    buf,            \* text_input
    query,          \* search_select
    cursor,         \* feature_select
    checked,
    sorry_index,
    add_cursor,     \* add_widget: cursor
    feature_checked,
    font_query,
    added_fonts,
    sorry_feature,
    font_sorry,
    last_lines,     \* the count carried from one redraw to the next
    before,         \* the Selection State and cursor when the last key event was read
    downs,          \* feature_select: Down keys read in a row, up to the number of items
    frame,          \* the lines written by the last redraw
    row,            \* terminal cursor row, relative to the first row of the first frame
    col,            \* terminal cursor column, 0 is the first column
    result,         \* what the function returned
    exit_status     \* <<>> while the process runs, <<code>> after process::exit

termVars == <<raw_mode, cursor_shown, guard, restore_failed>>
textVars == <<buf, query>>
fsVars == <<cursor, checked, sorry_index>>
addVars == <<add_cursor, feature_checked, font_query, added_fonts, sorry_feature, font_sorry>>
histVars == <<before, downs>>
locals == <<textVars, fsVars, addVars, histVars, last_lines>>
vars == <<prompt_fn, args, pc, termVars, key, wrote, locals, frame, row, col, result,
          exit_status>>

NoBefore == [sel |-> <<>>, cur |-> <<>>]
NoResult == [tag |-> "None", val |-> <<>>]
Ok(v) == [tag |-> "Ok", val |-> v]
Err == [tag |-> "Err", val |-> <<>>]

Init ==
    /\ prompt_fn \in PromptFns
    /\ args \in ArgsOf(prompt_fn)
    /\ pc = "start"
    /\ raw_mode = FALSE
    /\ cursor_shown = TRUE
    /\ guard = [state |-> "none", cursor_hidden |-> FALSE]
    /\ restore_failed = {}
    /\ key = NoEvent
    /\ wrote = "nothing"
    /\ buf = <<>>
    /\ query = <<>>
    /\ cursor = 0
    /\ checked = <<>>
    /\ sorry_index = None
    /\ add_cursor = [tag |-> "Feature", idx |-> 0]
    /\ feature_checked = <<>>
    /\ font_query = <<>>
    /\ added_fonts = <<>>
    /\ sorry_feature = None
    /\ font_sorry = FALSE
    /\ last_lines = 0
    /\ before = NoBefore
    /\ downs = 0
    /\ frame = <<>>
    /\ row = 0
    /\ col = 0
    /\ result = NoResult
    /\ exit_status = <<>>

\* ------------------------------------------------------------- RawGuard
\* which prompt functions call RawGuard::enter(true)
hide_cursor(f) == f = "feature_select"

\* RawGuard::enter: enable_raw_mode()?, then Hide? when asked, then the guard
RawGuardEnter ==
    /\ pc = "start"
    /\ \E outcome \in {"ok", "enable_err", "hide_err"} :
         /\ outcome = "hide_err" => hide_cursor(prompt_fn)
         /\ raw_mode' = (outcome # "enable_err")
         /\ cursor_shown' = IF outcome = "ok" /\ hide_cursor(prompt_fn)
                              THEN FALSE ELSE cursor_shown
         /\ guard' = IF outcome = "ok"
                       THEN [state |-> "held", cursor_hidden |-> hide_cursor(prompt_fn)]
                       ELSE guard
         /\ pc' = IF outcome = "ok" THEN "entered" ELSE "returned"
         /\ result' = IF outcome = "ok" THEN NoResult ELSE Err
    /\ UNCHANGED <<prompt_fn, args, restore_failed, key, wrote, locals, frame, row, col,
                   exit_status>>

\* faulty variant of drop_guard: a failed Show leaves drop at once, so that
\* disable_raw_mode is not called
drop_guard_show_first(show_ok, disable_ok) ==
    /\ guard.state = "held"
    /\ cursor_shown' = IF guard.cursor_hidden /\ show_ok THEN TRUE ELSE cursor_shown
    /\ raw_mode' = IF disable_ok /\ (show_ok \/ ~guard.cursor_hidden) THEN FALSE
                   ELSE raw_mode
    /\ guard' = [guard EXCEPT !.state = "dropped"]
    /\ restore_failed' = restore_failed
                         \cup (IF guard.cursor_hidden /\ ~show_ok THEN {"show"}
                               ELSE IF ~disable_ok THEN {"disable"} ELSE {})

\* Drop for RawGuard: Show when cursor_hidden, then disable_raw_mode; both
\* results are discarded
drop_guard(show_ok, disable_ok) ==
    /\ guard.state = "held"
    /\ cursor_shown' = IF guard.cursor_hidden /\ show_ok THEN TRUE ELSE cursor_shown
    /\ raw_mode' = IF disable_ok THEN FALSE ELSE raw_mode
    /\ guard' = [guard EXCEPT !.state = "dropped"]
    /\ restore_failed' = restore_failed
                         \cup (IF guard.cursor_hidden /\ ~show_ok THEN {"show"} ELSE {})
                         \cup (IF ~disable_ok THEN {"disable"} ELSE {})

\* the guard goes out of scope or is dropped: each restoring call it makes
\* may fail
guard_dropped ==
    \E show_ok \in (IF guard.cursor_hidden THEN BOOLEAN ELSE {TRUE}), disable_ok \in BOOLEAN :
        drop_guard(show_ok, disable_ok)

\* control leaves the function with a value: the guard goes out of scope
return(res) ==
    /\ guard_dropped
    /\ pc' = "returned"
    /\ result' = res
    /\ exit_status' = exit_status

\* the loop goes on: nothing leaves the function
continue ==
    /\ pc' = "await"
    /\ UNCHANGED <<termVars, result, exit_status>>

\* the local variables of the prompt function go out of scope
drop_locals ==
    /\ buf' = <<>>
    /\ query' = <<>>
    /\ cursor' = 0
    /\ checked' = <<>>
    /\ sorry_index' = None
    /\ add_cursor' = [tag |-> "Feature", idx |-> 0]
    /\ feature_checked' = <<>>
    /\ font_query' = <<>>
    /\ added_fonts' = <<>>
    /\ sorry_feature' = None
    /\ font_sorry' = FALSE
    /\ before' = NoBefore
    /\ downs' = 0
    /\ last_lines' = 0

\* faulty variant of write_fails: the error is swallowed and the loop goes on
write_fails_swallowed ==
    /\ wrote' = "failed"
    /\ frame' = <<>>
    /\ row' = row
    /\ col' = col
    /\ UNCHANGED locals
    /\ continue

\* a queue/flush of the step fails: `?` returns the error; the frame on the
\* terminal is torn
write_fails ==
    /\ wrote' = "failed"
    /\ frame' = <<>>
    /\ row' = row
    /\ col' = col
    /\ drop_locals
    /\ return(Err)

\* `if let Event::Key(key) = event::read()?`: a failed read returns the error
ReadFails ==
    /\ pc = "await"
    /\ key' = ReadErr
    /\ wrote' = "nothing"
    /\ drop_locals
    /\ return(Err)
    /\ UNCHANGED <<prompt_fn, args, frame, row, col>>

\* an event that is not a key event is dropped by the `if let`
ReadNotAKey ==
    /\ pc = "await"
    /\ key' = NotAKey
    /\ wrote' = "nothing"
    /\ continue
    /\ UNCHANGED <<prompt_fn, args, locals, frame, row, col>>

\* faulty variant of CtrlCDrop: process::exit is reached with the guard still held
CtrlCDrop_guard_kept ==
    /\ pc = "await"
    /\ prompt_fn # "confirm"
    /\ \E k \in WidgetKeys :
         /\ is_ctrl_c(k)
         /\ key' = k
    /\ wrote' = "nothing"
    /\ pc' = "exiting"
    /\ UNCHANGED <<prompt_fn, args, termVars, locals, frame, row, col, result, exit_status>>

\* drop(_guard) of the Ctrl+C branch of text_input, search_select,
\* feature_select and add_widget
CtrlCDrop ==
    /\ pc = "await"
    /\ prompt_fn # "confirm"
    /\ \E k \in WidgetKeys :
         /\ is_ctrl_c(k)
         /\ key' = k
    /\ wrote' = "nothing"
    /\ guard_dropped
    /\ pc' = "exiting"
    /\ UNCHANGED <<prompt_fn, args, locals, frame, row, col, result, exit_status>>

\* std::process::exit(130) of the Ctrl+C branch: the process is gone, the
\* terminal stays as it is
ProcessExit ==
    /\ pc = "exiting"
    /\ pc' = "exited"
    /\ exit_status' = <<INTERRUPTED>>
    /\ drop_locals
    /\ UNCHANGED <<prompt_fn, args, termVars, key, wrote, frame, row, col, result>>

\* ------------------------------------------------------- cursor column
\* the prompt text the functions are called with
prompt == <<"N", "a", "m", "e">>

\* a typed character that is not ASCII (two bytes in UTF-8, one column)
NonAscii == "U+00E9"

\* char::len_utf8 over the alphabet of the model
len_utf8(c) == IF c = NonAscii THEN 2 ELSE 1

\* str::len: the length in bytes
RECURSIVE len(_)
len(str) == IF str = <<>> THEN 0 ELSE len_utf8(Head(str)) + len(Tail(str))

\* the columns a printed text takes: one for each character of the alphabet
columns(str) == Len(str)

\* "Add fonts: ".len()
ADD_FONTS_LEN == 11

\* the column left by "? ", prompt, " ", "[Y/n] " of confirm_inner
confirm_col == 2 + columns(prompt) + 1 + 6

\* the column render_text_input leaves the cursor in: MoveToColumn for the
\* empty buffer, the end of the printed buffer otherwise
text_input_col(b) ==
    IF b = <<>> THEN 2 + len(prompt) + 1
    ELSE 2 + columns(prompt) + 1 + columns(b)

\* let col = ...; MoveToColumn(col as u16) of render_search and of render_add
search_col(q) ==
    IF prompt_fn = "add_widget" THEN 2 + ADD_FONTS_LEN + len(q)
    ELSE 2 + len(prompt) + 1 + len(q)

\* the query printed on the search row of the lines of a frame
search_text(lines) == SelectSeq(lines, LAMBDA l : l.kind = "search")[1].text

\* ------------------------------------------------------------- redraw
\* faulty variant of redraw: the count carried to the next redraw is always 0
redraw_ret_zero(lines, up, ret) ==
    /\ wrote' = "frame"
    /\ frame' = lines
    /\ row' = row - last_lines + Len(lines) - up
    /\ col' = IF up = 0 THEN 0 ELSE search_col(search_text(lines))
    /\ last_lines' = 0
    /\ continue

\* a redraw that wrote `lines`, moved the cursor up `up` rows at its end and
\* returned `ret`; it starts with move_up(prev_lines), prev_lines = last_lines
redraw(lines, up, ret) ==
    /\ wrote' = "frame"
    /\ frame' = lines
    /\ row' = row - last_lines + Len(lines) - up
    /\ col' = IF up = 0 THEN 0 ELSE search_col(search_text(lines))
    /\ last_lines' = ret
    /\ continue

\* move_up(last_lines), move_to_start_and_clear, print_confirm, return Ok(v)
commit(v) ==
    /\ wrote' = "final"
    /\ frame' = << [kind |-> "confirmed"] >>
    /\ row' = row - last_lines + 1
    /\ col' = 0
    /\ drop_locals
    /\ return(Ok(v))

help_lines(help) == IF help THEN << [kind |-> "help"] >> ELSE <<>>

\* ------------------------------------------------------------- confirm
confirm_frame == << [kind |-> "confirm"] >>

\* confirm_inner up to the loop: the prompt line is written and flushed
ConfirmInit ==
    /\ pc = "entered"
    /\ prompt_fn = "confirm"
    /\ \E w_ok \in BOOLEAN :
         IF w_ok
           THEN /\ wrote' = "frame"
                /\ frame' = confirm_frame
                /\ continue
                /\ col' = confirm_col
                /\ UNCHANGED <<locals, row>>
           ELSE write_fails
    /\ UNCHANGED <<prompt_fn, args, key>>

\* faulty variant of confirm_answer: Esc answers yes
confirm_answer_esc_yes(k) ==
    IF k.code \in {"Enter", "Esc"} \/ (k.code = "Char" /\ k.ch \in {"y", "Y"}) THEN Some(TRUE)
    ELSE IF k.code = "Char" /\ k.ch \in {"n", "N"} THEN Some(FALSE)
    ELSE None

\* the answer of confirm to a key: Some(true), Some(false) or None (ignored)
confirm_answer(k) ==
    IF k.code = "Enter" \/ (k.code = "Char" /\ k.ch \in {"y", "Y"}) THEN Some(TRUE)
    ELSE IF k.code = "Char" /\ k.ch \in {"n", "N"} THEN Some(FALSE)
    ELSE IF k.code = "Esc" THEN Some(FALSE)
    ELSE None

\* one iteration of the loop of confirm_inner on a key event
ConfirmKey ==
    /\ pc = "await"
    /\ prompt_fn = "confirm"
    /\ \E k \in ConfirmKeys, w_ok \in BOOLEAN :
         /\ key' = k
         /\ IF confirm_answer(k) = None
              THEN /\ w_ok
                   /\ wrote' = "nothing"
                   /\ continue
                   /\ UNCHANGED <<locals, frame, row, col>>
              ELSE IF w_ok
                THEN /\ wrote' = "final"
                     /\ frame' = << [kind |-> "confirmed"] >>
                     /\ row' = row + 1
                     /\ col' = 0
                     /\ drop_locals
                     /\ return(Ok(confirm_answer(k)[1]))
                ELSE write_fails
    /\ UNCHANGED <<prompt_fn, args>>

\* ----------------------------------------------------------- text_input
render_text_input(b) == << [kind |-> "input", text |-> b, placeholder |-> (b = <<>>)] >>

\* render_text_input rewrites the current line: no line break is written
text_redraw(lines) ==
    /\ wrote' = "frame"
    /\ frame' = lines
    /\ row' = row
    /\ col' = text_input_col(lines[1].text)
    /\ continue

\* text_input_inner up to the loop
TextInputInit ==
    /\ pc = "entered"
    /\ prompt_fn = "text_input"
    /\ \E w_ok \in BOOLEAN :
         IF w_ok
           THEN /\ buf' = <<>>
                /\ UNCHANGED <<query, fsVars, addVars, histVars, last_lines>>
                /\ text_redraw(render_text_input(buf'))
           ELSE write_fails
    /\ UNCHANGED <<prompt_fn, args, key>>

\* the match on key.code of text_input_inner, Enter apart
text_input_edit(b, k) ==
    IF k.code = "Backspace" THEN SubSeq(b, 1, Len(b) - 1)
    ELSE IF k.code = "Char" THEN Append(b, k.ch)
    ELSE b

\* faulty variant of text_input_result: the default is never used
text_input_result_buf(b, default) == b

\* the value Enter returns
text_input_result(b, default) == IF b = <<>> THEN default ELSE b

\* one iteration of the loop of text_input_inner on a key event
TextInputKey ==
    /\ pc = "await"
    /\ prompt_fn = "text_input"
    /\ \E k \in TextKeys, w_ok \in BOOLEAN :
         /\ ~is_ctrl_c(k)
         /\ k.code = "Char" => Len(buf) < MaxQuery
         /\ key' = k
         /\ IF ~w_ok THEN write_fails
            ELSE IF k.code = "Enter"
              THEN commit(text_input_result(buf, args.default))
              ELSE /\ buf' = text_input_edit(buf, k)
                   /\ UNCHANGED <<query, fsVars, addVars, histVars, last_lines>>
                   /\ text_redraw(render_text_input(buf'))
    /\ UNCHANGED <<prompt_fn, args>>

\* -------------------------------------------------------- search_select
\* the lines render_search writes: prompt line, the shown results, help
render_search(q, items, help) ==
    LET shown == take(filter(items, q), VISIBLE_RESULTS) IN
    << [kind |-> "search", text |-> q, active |-> TRUE] >>
    \o [i \in 1..Len(shown) |->
          [kind |-> "result", item |-> shown[i],
           style |-> IF i = 1 THEN "blue" ELSE "plain"]]
    \o help_lines(help)

\* search_select_inner up to the loop
SearchSelectInit ==
    /\ pc = "entered"
    /\ prompt_fn = "search_select"
    /\ \E w_ok \in BOOLEAN :
         IF w_ok
           THEN /\ query' = <<>>
                /\ UNCHANGED <<buf, fsVars, addVars, histVars>>
                /\ LET lines == render_search(query', args.items, args.help) IN
                   redraw(lines, Len(lines), 0)
           ELSE write_fails
    /\ UNCHANGED <<prompt_fn, args, key>>

\* the match on key.code of search_select_inner, Enter apart
search_select_edit(q, k) ==
    IF k.code = "Backspace" THEN SubSeq(q, 1, Len(q) - 1)
    ELSE IF k.code = "Char" THEN Append(q, k.ch)
    ELSE q

\* faulty variant of search_select_result: the top of the unfiltered list
search_select_result_unfiltered(items, q) == first(items)

\* `filter(items, &query).first()` of the Enter branch
search_select_result(items, q) == first(filter(items, q))

\* one iteration of the loop of search_select_inner on a key event
SearchSelectKey ==
    /\ pc = "await"
    /\ prompt_fn = "search_select"
    /\ \E k \in TextKeys, w_ok \in BOOLEAN :
         /\ ~is_ctrl_c(k)
         /\ k.code = "Char" => Len(query) < MaxQuery
         /\ key' = k
         /\ IF ~w_ok THEN write_fails
            ELSE IF k.code = "Enter" /\ search_select_result(args.items, query) # None
              THEN commit(search_select_result(args.items, query)[1])
              ELSE /\ query' = search_select_edit(query, k)
                   /\ UNCHANGED <<buf, fsVars, addVars, histVars>>
                   /\ LET lines == render_search(query', args.items, args.help) IN
                      redraw(lines, Len(lines), 0)
    /\ UNCHANGED <<prompt_fn, args>>

\* ------------------------------------------------------- feature_select
\* KeyCode::Char(' ') | KeyCode::Enter
is_toggle(k) == k.code = "Enter" \/ (k.code = "Char" /\ k.ch = " ")

\* one feature row of render_features and render_add (i is 0-based)
feature_line(i, fkey, is_cursor, chk, locked, sorry) ==
    IF sorry = Some(i) THEN [kind |-> "sorry", i |-> i]
    ELSE LET is_checked == IF i < Len(chk) THEN chk[i + 1] ELSE FALSE
             is_locked == fkey \in locked
         IN [kind |-> "feature", i |-> i, box |-> (is_checked \/ is_locked),
             style |-> IF is_cursor THEN "blue"
                       ELSE IF is_checked \/ is_locked THEN "green" ELSE "plain"]

\* the lines render_features writes: prompt, the rows (features, then the
\* action row), help
render_features(features, cur, chk, locked, sorry, help) ==
    << [kind |-> "prompt"] >>
    \o [j \in 1..Len(features) |->
          feature_line(j - 1, features[j], j - 1 = cur, chk, locked, sorry)]
    \o << [kind |-> "action", style |-> IF cur = Len(features) THEN "blue" ELSE "plain"] >>
    \o help_lines(help)

\* faulty variant of initial_checked: pre_checked is not looked at
initial_checked_none(features, pre_checked) ==
    [j \in 1..Len(features) |-> FALSE]

\* let mut checked = features.map(|key| pre_checked.contains(key))
initial_checked(features, pre_checked) ==
    [j \in 1..Len(features) |-> features[j] \in pre_checked]

\* feature_select_inner up to the loop
FeatureSelectInit ==
    /\ pc = "entered"
    /\ prompt_fn = "feature_select"
    /\ \E w_ok \in BOOLEAN :
         IF w_ok
           THEN /\ cursor' = 0
                /\ checked' = initial_checked(args.features, args.pre_checked)
                /\ sorry_index' = None
                /\ before' = [sel |-> checked', cur |-> cursor']
                /\ downs' = 0
                /\ UNCHANGED <<textVars, addVars>>
                /\ LET lines == render_features(args.features, cursor', checked',
                                                args.locked, sorry_index', args.help) IN
                   redraw(lines, 0, Len(lines))
           ELSE write_fails
    /\ UNCHANGED <<prompt_fn, args, key>>

\* faulty variant of fs_cursor: Down stops one row above the last row
fs_cursor_short(cur, k, n_rows) ==
    IF k.code = "Up" THEN (IF cur > 0 THEN cur - 1 ELSE cur)
    ELSE IF k.code = "Down" THEN (IF cur + 2 < n_rows THEN cur + 1 ELSE cur)
    ELSE cur

\* faulty variant of fs_cursor: Down on the last row wraps to row 0
fs_cursor_wrap(cur, k, n_rows) ==
    IF k.code = "Up" THEN (IF cur > 0 THEN cur - 1 ELSE cur)
    ELSE IF k.code = "Down" THEN (IF cur + 1 < n_rows THEN cur + 1 ELSE 0)
    ELSE cur

\* faulty variant of fs_cursor: a toggle moves on to the next row
fs_cursor_toggle_down(cur, k, n_rows) ==
    IF k.code = "Up" THEN (IF cur > 0 THEN cur - 1 ELSE cur)
    ELSE IF k.code = "Down" \/ k.code = "Enter" \/ (k.code = "Char" /\ k.ch = " ")
      THEN (IF cur + 1 < n_rows THEN cur + 1 ELSE cur)
    ELSE cur

\* the cursor after a key; n_rows = rows.len() = features.len() + 1
fs_cursor(cur, k, n_rows) ==
    IF k.code = "Up" THEN (IF cur > 0 THEN cur - 1 ELSE cur)
    ELSE IF k.code = "Down" THEN (IF cur + 1 < n_rows THEN cur + 1 ELSE cur)
    ELSE cur

\* faulty variant of fs_checked: the toggle checks the row, never unchecks it
fs_checked_set(chk, cur, k, features, locked) ==
    IF is_toggle(k) /\ cur < Len(features) /\ features[cur + 1] \notin locked
         /\ cur < Len(chk)
      THEN [chk EXCEPT ![cur + 1] = TRUE]
      ELSE chk

\* checked after a key: the toggle of an unlocked feature row
fs_checked(chk, cur, k, features, locked) ==
    IF is_toggle(k) /\ cur < Len(features) /\ features[cur + 1] \notin locked
         /\ cur < Len(chk)
      THEN [chk EXCEPT ![cur + 1] = ~@]
      ELSE chk

\* faulty variant of fs_sorry: Up and Down leave the notice where it is
fs_sorry_sticky(sorry, cur, k, features, locked) ==
    IF k.code = "Esc" THEN None
    ELSE IF is_toggle(k) /\ cur < Len(features)
      THEN (IF features[cur + 1] \in locked THEN Some(cur) ELSE None)
    ELSE sorry

\* sorry_index after a key
fs_sorry(sorry, cur, k, features, locked) ==
    IF k.code \in {"Up", "Down", "Esc"} THEN None
    ELSE IF is_toggle(k) /\ cur < Len(features)
      THEN (IF features[cur + 1] \in locked THEN Some(cur) ELSE None)
    ELSE sorry

\* the result of the Action row: the keys whose checked entry is true
RECURSIVE checked_keys(_, _, _)
checked_keys(features, chk, i) ==
    IF i > Len(features) THEN <<>>
    ELSE (IF i <= Len(chk) /\ chk[i] THEN <<features[i]>> ELSE <<>>)
         \o checked_keys(features, chk, i + 1)

\* faulty variant of feature_select_result: the first row is skipped
feature_select_result_skip(features, chk) == checked_keys(features, chk, 2)

feature_select_result(features, chk) == checked_keys(features, chk, 1)

\* one iteration of the loop of feature_select_inner on a key event
FeatureSelectKey ==
    /\ pc = "await"
    /\ prompt_fn = "feature_select"
    /\ \E k \in WidgetKeys, w_ok \in BOOLEAN :
         /\ ~is_ctrl_c(k)
         /\ key' = k
         /\ IF ~w_ok THEN write_fails
            ELSE IF is_toggle(k) /\ cursor = Len(args.features)
              THEN commit(feature_select_result(args.features, checked))
              ELSE /\ UNCHANGED <<textVars, addVars>>
                   /\ before' = [sel |-> checked, cur |-> cursor]
                   /\ downs' = IF k.code # "Down" THEN 0
                                ELSE IF downs < Len(args.features) THEN downs + 1
                                ELSE downs
                   /\ cursor' = fs_cursor(cursor, k, Len(args.features) + 1)
                   /\ checked' = fs_checked(checked, cursor, k, args.features, args.locked)
                   /\ sorry_index' = fs_sorry(sorry_index, cursor, k, args.features,
                                              args.locked)
                   /\ LET lines == render_features(args.features, cursor', checked',
                                                   args.locked, sorry_index', args.help) IN
                      redraw(lines, 0, Len(lines))
    /\ UNCHANGED <<prompt_fn, args>>

\* ----------------------------------------------------------- add_widget
\* enum AddCursorPos
Feature(i) == [tag |-> "Feature", idx |-> i]
FontSearch == [tag |-> "FontSearch", idx |-> 0]
Done == [tag |-> "Done", idx |-> 0]

\* let mut feature_checked = features.map(|key| locked_features.contains(key))
initial_feature_checked(features, locked) ==
    [j \in 1..Len(features) |-> features[j] \in locked]

\* faulty variant of add_cursor_next: Up from the font search goes to row 0
add_cursor_next_row0(cur, k, n) ==
    CASE cur.tag = "Feature" ->
            IF k.code = "Up" THEN (IF cur.idx > 0 THEN Feature(cur.idx - 1) ELSE cur)
            ELSE IF k.code = "Down"
              THEN (IF cur.idx + 1 < n THEN Feature(cur.idx + 1) ELSE FontSearch)
            ELSE cur
      [] cur.tag = "FontSearch" ->
            IF k.code = "Up" THEN (IF n # 0 THEN Feature(0) ELSE cur)
            ELSE IF k.code = "Down" THEN Done
            ELSE cur
      [] cur.tag = "Done" ->
            IF k.code = "Up" THEN FontSearch ELSE cur

\* the cursor after a key, n = features.len()
add_cursor_next(cur, k, n) ==
    CASE cur.tag = "Feature" ->
            IF k.code = "Up" THEN (IF cur.idx > 0 THEN Feature(cur.idx - 1) ELSE cur)
            ELSE IF k.code = "Down"
              THEN (IF cur.idx + 1 < n THEN Feature(cur.idx + 1) ELSE FontSearch)
            ELSE cur
      [] cur.tag = "FontSearch" ->
            IF k.code = "Up" THEN (IF n # 0 THEN Feature(n - 1) ELSE cur)
            ELSE IF k.code = "Down" THEN Done
            ELSE cur
      [] cur.tag = "Done" ->
            IF k.code = "Up" THEN FontSearch ELSE cur

\* feature_checked after a key: the toggle of an unlocked feature row
add_feature_checked(chk, cur, k, features, locked) ==
    IF cur.tag = "Feature" /\ is_toggle(k) /\ cur.idx < Len(features)
         /\ features[cur.idx + 1] \notin locked /\ cur.idx < Len(chk)
      THEN [chk EXCEPT ![cur.idx + 1] = ~@]
      ELSE chk

\* sorry_feature after a key
add_sorry_feature(sorry, cur, k, features, locked) ==
    IF cur.tag # "Feature" THEN sorry
    ELSE IF k.code \in {"Up", "Down", "Esc"} THEN None
    ELSE IF is_toggle(k) /\ cur.idx < Len(features)
      THEN (IF features[cur.idx + 1] \in locked THEN Some(cur.idx) ELSE None)
    ELSE sorry

\* faulty variant of is_duplicate: the installed fonts are not looked at
is_duplicate_added_only(name, installed, added) == name \in Range(added)

\* faulty variant of is_duplicate: the fonts added so far are not looked at
is_duplicate_installed_only(name, installed, added) == name \in Range(installed)

\* installed_fonts.iter().any(|f| f == &name) || added_fonts.iter().any(|f| f == &name)
is_duplicate(name, installed, added) == name \in Range(installed) \/ name \in Range(added)

\* faulty variant of add_added_fonts: Esc in the font search drops the added fonts
add_added_fonts_esc_clears(added, cur, k, items, q, installed) ==
    LET top == first(filter(items, q)) IN
    IF cur.tag = "FontSearch" /\ k.code = "Esc" THEN <<>>
    ELSE IF cur.tag = "FontSearch" /\ k.code = "Enter" /\ top # None
         /\ ~(top[1] \in Range(installed) \/ top[1] \in Range(added))
      THEN Append(added, top[1])
      ELSE added

\* faulty variant of add_added_fonts: the new font is put in front
add_added_fonts_front(added, cur, k, items, q, installed) ==
    LET top == first(filter(items, q)) IN
    IF cur.tag = "FontSearch" /\ k.code = "Enter" /\ top # None
         /\ ~(top[1] \in Range(installed) \/ top[1] \in Range(added))
      THEN <<top[1]>> \o added
      ELSE added

\* added_fonts after a key: Enter in the font search pushes a new top match
add_added_fonts(added, cur, k, items, q, installed) ==
    LET top == first(filter(items, q)) IN
    IF cur.tag = "FontSearch" /\ k.code = "Enter" /\ top # None
         /\ ~is_duplicate(top[1], installed, added)
      THEN Append(added, top[1])
      ELSE added

\* faulty variant of add_font_query: the query is edited from every zone
add_font_query_any_zone(q, cur, k, items) ==
    IF k.code \in {"Up", "Down"} THEN q
    ELSE IF k.code = "Enter"
      THEN (IF cur.tag = "FontSearch" /\ first(filter(items, q)) # None THEN <<>> ELSE q)
    ELSE IF k.code = "Backspace" THEN SubSeq(q, 1, Len(q) - 1)
    ELSE IF k.code = "Char" THEN Append(q, k.ch)
    ELSE IF k.code = "Esc" THEN <<>>
    ELSE q

\* font_query after a key
add_font_query(q, cur, k, items) ==
    IF cur.tag # "FontSearch" \/ k.code \in {"Up", "Down"} THEN q
    ELSE IF k.code = "Enter" THEN (IF first(filter(items, q)) # None THEN <<>> ELSE q)
    ELSE IF k.code = "Backspace" THEN SubSeq(q, 1, Len(q) - 1)
    ELSE IF k.code = "Char" THEN Append(q, k.ch)
    ELSE IF k.code = "Esc" THEN <<>>
    ELSE q

\* faulty variant of add_font_sorry: Up and Down leave the notice set
add_font_sorry_sticky(sorry, cur, k, items, q, installed, added) ==
    LET top == first(filter(items, q)) IN
    IF cur.tag # "FontSearch" THEN sorry
    ELSE IF k.code = "Enter"
      THEN (IF top # None THEN is_duplicate(top[1], installed, added) ELSE sorry)
    ELSE IF k.code \in {"Backspace", "Char", "Esc"} THEN FALSE
    ELSE sorry

\* font_sorry after a key
add_font_sorry(sorry, cur, k, items, q, installed, added) ==
    LET top == first(filter(items, q)) IN
    IF cur.tag # "FontSearch" THEN sorry
    ELSE IF k.code \in {"Up", "Down"} THEN FALSE
    ELSE IF k.code = "Enter"
      THEN (IF top # None THEN is_duplicate(top[1], installed, added) ELSE sorry)
    ELSE IF k.code \in {"Backspace", "Char", "Esc"} THEN FALSE
    ELSE sorry

\* new_features of the Done branch: checked and not locked, in feature order
RECURSIVE new_keys(_, _, _, _)
new_keys(features, chk, locked, i) ==
    IF i > Len(features) THEN <<>>
    ELSE (IF i <= Len(chk) /\ chk[i] /\ features[i] \notin locked
            THEN <<features[i]>> ELSE <<>>)
         \o new_keys(features, chk, locked, i + 1)

\* faulty variant of new_features: locked keys are not filtered out
new_features_unfiltered(features, chk, locked) == checked_keys(features, chk, 1)

new_features(features, chk, locked) == new_keys(features, chk, locked, 1)

\* AddResult { features: new_features, fonts: added_fonts }
AddResult(features, chk, locked, added) ==
    [features |-> new_features(features, chk, locked), fonts |-> added]

\* the lines render_add writes: prompt, feature rows, font search row, the
\* results or the sorry line, Done!, summary, help
render_add(features, items, locked, installed, cur, chk, q, added, sorry, fsorry, help) ==
    LET font_is_cursor == cur.tag = "FontSearch"
        shown == take(filter(items, q), VISIBLE_RESULTS)
    IN
    << [kind |-> "prompt"] >>
    \o [j \in 1..Len(features) |->
          feature_line(j - 1, features[j], cur.tag = "Feature" /\ cur.idx = j - 1,
                       chk, locked, sorry)]
    \o << [kind |-> "search", text |-> q, active |-> font_is_cursor] >>
    \o (IF fsorry THEN << [kind |-> "font_sorry"] >>
        ELSE [i \in 1..Len(shown) |->
                [kind |-> "result", item |-> shown[i],
                 style |-> IF i = 1 /\ font_is_cursor THEN "blue"
                           ELSE IF is_duplicate(shown[i], installed, added) THEN "green"
                           ELSE "plain"]])
    \o << [kind |-> "action", style |-> IF cur.tag = "Done" THEN "blue" ELSE "plain"] >>
    \o (IF new_features(features, chk, locked) # <<>> \/ added # <<>>
          THEN << [kind |-> "summary", features |-> new_features(features, chk, locked),
                   fonts |-> added] >>
          ELSE <<>>)
    \o help_lines(help)

\* faulty variant of font_search_line: taken one row too low
font_search_line_low(features) == Len(features) + 2

\* let font_search_line = lines - 1, taken after the font search row
font_search_line(features) == Len(features) + 1

\* faulty variant of add_redraw: the parked redraw reports all its lines
add_redraw_total(lines, cur, features) ==
    IF cur.tag = "FontSearch"
      THEN redraw(lines, Len(lines) - font_search_line(features), Len(lines))
      ELSE redraw(lines, 0, Len(lines))

\* the end of render_add: park at the font search row or stay at the bottom
add_redraw(lines, cur, features) ==
    IF cur.tag = "FontSearch"
      THEN redraw(lines, Len(lines) - font_search_line(features), font_search_line(features))
      ELSE redraw(lines, 0, Len(lines))

\* add_widget_inner up to the loop
AddWidgetInit ==
    /\ pc = "entered"
    /\ prompt_fn = "add_widget"
    /\ \E w_ok \in BOOLEAN :
         IF w_ok
           THEN /\ add_cursor' = Feature(0)
                /\ feature_checked' = initial_feature_checked(args.features, args.locked)
                /\ font_query' = <<>>
                /\ added_fonts' = <<>>
                /\ sorry_feature' = None
                /\ font_sorry' = FALSE
                /\ before' = [sel |-> feature_checked', cur |-> add_cursor']
                /\ UNCHANGED <<textVars, fsVars, downs>>
                /\ add_redraw(render_add(args.features, args.items, args.locked,
                                         args.installed_fonts, add_cursor', feature_checked',
                                         font_query', added_fonts', sorry_feature',
                                         font_sorry', args.help),
                              add_cursor', args.features)
           ELSE write_fails
    /\ UNCHANGED <<prompt_fn, args, key>>

\* `features[idx].0` of the toggle branch is out of bounds
toggle_out_of_bounds(cur, k, features) ==
    cur.tag = "Feature" /\ is_toggle(k) /\ cur.idx >= Len(features)

\* one iteration of the loop of add_widget_inner on a key event
AddWidgetKey ==
    /\ pc = "await"
    /\ prompt_fn = "add_widget"
    /\ \E k \in WidgetKeys, w_ok \in BOOLEAN :
         /\ ~is_ctrl_c(k)
         /\ ~toggle_out_of_bounds(add_cursor, k, args.features)
         /\ (add_cursor.tag = "FontSearch" /\ k.code = "Char") => Len(font_query) < MaxQuery
         /\ key' = k
         /\ IF ~w_ok THEN write_fails
            ELSE IF add_cursor.tag = "Done" /\ is_toggle(k)
              THEN commit(AddResult(args.features, feature_checked, args.locked, added_fonts))
              ELSE /\ UNCHANGED <<textVars, fsVars, downs>>
                   /\ before' = [sel |-> feature_checked, cur |-> add_cursor]
                   /\ add_cursor' = add_cursor_next(add_cursor, k, Len(args.features))
                   /\ feature_checked' = add_feature_checked(feature_checked, add_cursor, k,
                                                             args.features, args.locked)
                   /\ sorry_feature' = add_sorry_feature(sorry_feature, add_cursor, k,
                                                         args.features, args.locked)
                   /\ added_fonts' = add_added_fonts(added_fonts, add_cursor, k, args.items,
                                                     font_query, args.installed_fonts)
                   /\ font_query' = add_font_query(font_query, add_cursor, k, args.items)
                   /\ font_sorry' = add_font_sorry(font_sorry, add_cursor, k, args.items,
                                                   font_query, args.installed_fonts,
                                                   added_fonts)
                   /\ add_redraw(render_add(args.features, args.items, args.locked,
                                            args.installed_fonts, add_cursor',
                                            feature_checked', font_query', added_fonts',
                                            sorry_feature', font_sorry', args.help),
                                 add_cursor', args.features)
    /\ UNCHANGED <<prompt_fn, args>>

\* the toggle branch indexes features past its end: the thread panics and
\* unwinding drops the guard
AddWidgetPanic ==
    /\ pc = "await"
    /\ prompt_fn = "add_widget"
    /\ \E k \in WidgetKeys :
         /\ ~is_ctrl_c(k)
         /\ toggle_out_of_bounds(add_cursor, k, args.features)
         /\ key' = k
    /\ wrote' = "nothing"
    /\ guard_dropped
    /\ pc' = "panicked"
    /\ drop_locals
    /\ UNCHANGED <<prompt_fn, args, frame, row, col, result, exit_status>>

Next ==
    \/ RawGuardEnter
    \/ ReadFails
    \/ ReadNotAKey
    \/ CtrlCDrop
    \/ ProcessExit
    \/ ConfirmInit
    \/ ConfirmKey
    \/ TextInputInit
    \/ TextInputKey
    \/ SearchSelectInit
    \/ SearchSelectKey
    \/ FeatureSelectInit
    \/ FeatureSelectKey
    \/ AddWidgetInit
    \/ AddWidgetKey
    \/ AddWidgetPanic

Spec == Init /\ [][Next]_vars

\* ----------------------------------------------------------------- filter
\* a call of filter(items, query) on its own: the arguments
FilterInit ==
    /\ prompt_fn = "filter"
    /\ args \in {[NoArgs EXCEPT !.items = it] : it \in FilterLists}
    /\ pc = "start"
    /\ raw_mode = FALSE
    /\ cursor_shown = TRUE
    /\ guard = [state |-> "none", cursor_hidden |-> FALSE]
    /\ restore_failed = {}
    /\ key = NoEvent
    /\ wrote = "nothing"
    /\ buf = <<>>
    /\ query \in FilterQueries
    /\ cursor = 0
    /\ checked = <<>>
    /\ sorry_index = None
    /\ add_cursor = [tag |-> "Feature", idx |-> 0]
    /\ feature_checked = <<>>
    /\ font_query = <<>>
    /\ added_fonts = <<>>
    /\ sorry_feature = None
    /\ font_sorry = FALSE
    /\ last_lines = 0
    /\ before = NoBefore
    /\ downs = 0
    /\ frame = <<>>
    /\ row = 0
    /\ col = 0
    /\ result = NoResult
    /\ exit_status = <<>>

\* filter returns its vector of references; items is borrowed immutably
FilterCall ==
    /\ pc = "start"
    /\ prompt_fn = "filter"
    /\ pc' = "returned"
    /\ result' = Ok(filter(args.items, query))
    /\ UNCHANGED <<prompt_fn, args, termVars, key, wrote, locals, frame, row, col, exit_status>>

FilterNext == FilterCall

FilterSpec == FilterInit /\ [][FilterNext]_vars

\* ======================================================================
\* Properties
\* ======================================================================
left_function == pc \in {"returned", "exited"}

font_Ro == <<"R", "o">>
font_or == <<"o", "r">>

\* res lists, once each and in the order of `features`, exactly the keys at
\* the positions `sel` of `features`
ListsInOrder(res, features, sel) ==
    /\ Len(res) = Cardinality(sel)
    /\ \A i \in sel : \E p \in 1..Len(res) : res[p] = features[i]
    /\ \A p \in 1..Len(res) : \E i \in sel : res[p] = features[i]
    /\ \A p, q \in 1..Len(res) :
         p < q => \E i, j \in sel : i < j /\ res[p] = features[i] /\ res[q] = features[j]

\* C1: whenever control has left a prompt function (a value or an error was
\* returned, or the process exited on Ctrl+C) and no restoring call of the
\* guard failed, the terminal is in canonical mode with the cursor visible.
C1_RestoredOnEveryExit ==
    (left_function /\ restore_failed = {}) => (~raw_mode /\ cursor_shown)

\* C2: in text_input, search_select, feature_select and add_widget a Ctrl+C
\* key event drops the guard (cursor shown if hidden, raw mode disabled,
\* unless that call fails) without touching or redrawing the prompt state;
\* only then the process exits, with status 130 and without a result, and
\* nothing happens after the exit.
C2_CtrlCRestoresThenExits ==
    [][ /\ (pc = "await" /\ prompt_fn # "confirm" /\ is_ctrl_c(key')) =>
             /\ pc' = "exiting"
             /\ guard.state = "held" /\ guard'.state = "dropped"
             /\ restore_failed' = {} => (~raw_mode' /\ cursor_shown')
             /\ wrote' = "nothing"
             /\ UNCHANGED <<locals, frame, row, result, exit_status>>
        /\ pc' = "exited" =>
             /\ pc = "exiting"
             /\ guard.state = "dropped"
             /\ exit_status = <<>> /\ exit_status' = <<INTERRUPTED>>
             /\ result' = NoResult
             /\ UNCHANGED <<termVars, frame, row, wrote>>
        /\ pc = "exiting" => pc' = "exited"
        /\ pc = "exited" => UNCHANGED vars
      ]_vars

C2_Witness ==
    /\ pc = "exited"
    /\ prompt_fn = "feature_select"
    /\ guard = [state |-> "dropped", cursor_hidden |-> TRUE]
    /\ exit_status = <<INTERRUPTED>>
    /\ ~raw_mode /\ cursor_shown

\* C3: in confirm, a Ctrl+C key event read while the prompt awaits input
\* ends the process (the Ctrl+C exit path is taken).
C3_ConfirmCtrlCAborts ==
    (prompt_fn = "confirm" /\ is_ctrl_c(key)) => pc \in {"exiting", "exited"}

\* the feature keys a prompt returned
committed_features ==
    IF prompt_fn = "add_widget" THEN result.val.features ELSE result.val

\* C4: no locked key is a member of the feature result committed by
\* feature_select or add_widget.
C4_LockedNeverCommitted ==
    (pc = "returned" /\ result.tag = "Ok" /\ prompt_fn \in {"feature_select", "add_widget"})
        => \A x \in args.locked : x \notin Range(committed_features)

\* C5: feature_select returns a result exactly on Space or Enter with the
\* cursor on the Action row (the write of the final line succeeding), and the
\* result lists, once each and in item order, the keys whose Selection State
\* is checked at that moment.
C5_FeatureSelectCommit ==
    [][ (pc = "await" /\ prompt_fn = "feature_select") =>
          /\ result'.tag = "Ok" =>
               /\ is_toggle(key') /\ cursor = Len(args.features)
               /\ pc' = "returned"
               /\ ListsInOrder(result'.val, args.features,
                               {i \in 1..Len(args.features) : checked[i]})
          /\ (is_toggle(key') /\ cursor = Len(args.features) /\ wrote' # "failed") =>
               (pc' = "returned" /\ result'.tag = "Ok")
          /\ pc' = "returned" => result'.tag \in {"Ok", "Err"}
      ]_vars

C5_Witness ==
    /\ prompt_fn = "feature_select"
    /\ args.features = <<"a", "b">> /\ args.locked = {"a"} /\ args.pre_checked = {}
    /\ pc = "returned"
    /\ key = Key("Enter")
    /\ result = Ok(<<"b">>)

\* C6: add_widget returns a result only on Space or Enter in the Done zone;
\* its features are, once each and in feature order, the keys that are
\* checked and not locked, and its fonts are the added-fonts list, which
\* only ever grows at its end while the widget runs.
C6_AddWidgetCommit ==
    [][ (pc = "await" /\ prompt_fn = "add_widget") =>
          /\ result'.tag = "Ok" =>
               /\ is_toggle(key') /\ add_cursor = Done
               /\ ListsInOrder(result'.val.features, args.features,
                               {i \in 1..Len(args.features) :
                                   feature_checked[i] /\ args.features[i] \notin args.locked})
               /\ result'.val.fonts = added_fonts
          /\ (is_toggle(key') /\ add_cursor = Done /\ wrote' # "failed") =>
               (pc' = "returned" /\ result'.tag = "Ok")
          /\ pc' = "await" =>
               \/ added_fonts' = added_fonts
               \/ /\ Len(added_fonts') = Len(added_fonts) + 1
                  /\ SubSeq(added_fonts', 1, Len(added_fonts)) = added_fonts
      ]_vars

C6_Witness ==
    /\ prompt_fn = "add_widget"
    /\ args.features = <<"a", "b">> /\ args.locked = {"a"}
    /\ pc = "returned"
    /\ result = Ok([features |-> <<"b">>, fonts |-> <<font_Ro, font_or>>])

\* the top filtered match of the font search, None when nothing matches
font_top == first(filter(args.items, font_query))

\* C7: Enter in the font-search zone whose top filtered match is installed
\* or already added leaves the added-fonts list unchanged, raises the
\* notice (drawn in place of the results), clears the query and keeps the
\* widget running without a result or an error.
C7_DuplicateFontRejected ==
    [][ (/\ pc = "await" /\ prompt_fn = "add_widget"
         /\ add_cursor = FontSearch /\ key'.code = "Enter"
         /\ font_top # None
         /\ (font_top[1] \in Range(args.installed_fonts) \/ font_top[1] \in Range(added_fonts))
         /\ wrote' # "failed") =>
          /\ added_fonts' = added_fonts
          /\ font_sorry'
          /\ font_query' = <<>>
          /\ pc' = "await" /\ result' = NoResult
          /\ add_cursor' = FontSearch
          /\ \E j \in 1..Len(frame') : frame'[j].kind = "font_sorry"
          /\ \A j \in 1..Len(frame') : frame'[j].kind # "result"
      ]_vars

C7_Witness ==
    /\ prompt_fn = "add_widget"
    /\ args.installed_fonts = <<font_Ro>>
    /\ pc = "await"
    /\ key = Key("Enter")
    /\ font_sorry /\ font_query = <<>> /\ added_fonts = <<>>

C7_WitnessAdded ==
    /\ prompt_fn = "add_widget"
    /\ args.installed_fonts = <<>>
    /\ pc = "await"
    /\ key = Key("Enter")
    /\ font_sorry /\ font_query = <<>> /\ added_fonts = <<font_or>>

\* C8: Enter in the font-search zone whose top filtered match is not a
\* duplicate appends it to the end of the added-fonts list, clears the query
\* and keeps the widget running in the font-search zone; add_widget returns
\* a result only on Space or Enter in the Done zone.
C8_FontEnterAppends ==
    [][ (pc = "await" /\ prompt_fn = "add_widget") =>
          /\ (/\ add_cursor = FontSearch /\ key'.code = "Enter"
              /\ font_top # None
              /\ font_top[1] \notin Range(args.installed_fonts)
              /\ font_top[1] \notin Range(added_fonts)
              /\ wrote' # "failed") =>
               /\ added_fonts' = Append(added_fonts, font_top[1])
               /\ font_query' = <<>>
               /\ ~font_sorry'
               /\ pc' = "await" /\ result' = NoResult
               /\ add_cursor' = FontSearch
          /\ result'.tag = "Ok" => (add_cursor = Done /\ is_toggle(key'))
      ]_vars

C8_Witness ==
    /\ prompt_fn = "add_widget"
    /\ pc = "await"
    /\ key = Key("Enter")
    /\ add_cursor = FontSearch
    /\ added_fonts = <<font_Ro, font_or>>
    /\ font_query = <<>>

\* the cursor moves of C9 that do not involve Up from the font search
C9_OtherMoves ==
    LET n == Len(args.features) IN
    /\ (add_cursor.tag = "Feature" /\ key'.code = "Down") =>
          add_cursor' = IF add_cursor.idx + 1 < n THEN Feature(add_cursor.idx + 1)
                        ELSE FontSearch
    /\ (add_cursor.tag = "Feature" /\ key'.code = "Up") =>
          add_cursor' = IF add_cursor.idx > 0 THEN Feature(add_cursor.idx - 1)
                        ELSE Feature(0)
    /\ (add_cursor = FontSearch /\ key'.code = "Down") => add_cursor' = Done
    /\ (add_cursor = Done /\ key'.code = "Up") => add_cursor' = FontSearch

\* C9 as written: Up from the font-search zone always lands on the last
\* feature row, with the other moves as in C9_OtherMoves.
C9_ZoneTraversal ==
    [][ (pc = "await" /\ prompt_fn = "add_widget" /\ pc' = "await") =>
          /\ C9_OtherMoves
          /\ (add_cursor = FontSearch /\ key'.code = "Up") =>
               (add_cursor'.tag = "Feature" /\ add_cursor'.idx = Len(args.features) - 1)
      ]_vars

\* C9 amended: Up from the font-search zone lands on the last feature row
\* when the feature list is not empty and stays in the font-search zone when
\* it is empty; the other moves as in C9_OtherMoves.
C9_ZoneTraversalAmended ==
    [][ (pc = "await" /\ prompt_fn = "add_widget" /\ pc' = "await") =>
          /\ C9_OtherMoves
          /\ (add_cursor = FontSearch /\ key'.code = "Up") =>
               add_cursor' = IF Len(args.features) > 0
                               THEN Feature(Len(args.features) - 1)
                               ELSE FontSearch
      ]_vars

C9_Witness ==
    /\ prompt_fn = "add_widget"
    /\ pc = "await"
    /\ Len(args.features) = 2
    /\ key = Key("Up")
    /\ add_cursor = Feature(1)

\* C10: in add_widget a cursor Feature(i) always has i < features.len().
C10_FeatureIndexInRange ==
    (prompt_fn = "add_widget" /\ pc = "await" /\ add_cursor.tag = "Feature")
        => add_cursor.idx < Len(args.features)

\* C11: search_select returns a value only on Enter, and the value is an
\* element of items and the first entry of filter(items, query) for the
\* query at that moment; Enter while the filtered list is empty returns
\* nothing and leaves the query, the frame and the terminal as they were.
C11_SearchSelectValidSelection ==
    [][ (pc = "await" /\ prompt_fn = "search_select") =>
          /\ result'.tag = "Ok" =>
               /\ key'.code = "Enter"
               /\ pc' = "returned"
               /\ result'.val \in Range(args.items)
               /\ filter(args.items, query) # <<>>
               /\ result'.val = filter(args.items, query)[1]
          /\ (key'.code = "Enter" /\ filter(args.items, query) = <<>> /\ wrote' # "failed") =>
               /\ pc' = "await" /\ result' = NoResult
               /\ query' = query
               /\ frame' = frame /\ row' = row /\ last_lines' = last_lines
               /\ UNCHANGED termVars
          /\ pc' = "returned" => result'.tag \in {"Ok", "Err"}
      ]_vars

C11_Witness ==
    /\ prompt_fn = "search_select"
    /\ args.items = <<font_or, font_Ro>>
    /\ pc = "returned"
    /\ key = Key("Enter")
    /\ result = Ok(font_Ro)

C11_WitnessNoOp ==
    /\ prompt_fn = "search_select"
    /\ args.items = <<font_or, font_Ro>>
    /\ pc = "await"
    /\ key = Key("Enter")
    /\ query = <<"r", "r">>

\* C12: in search_select a Space key event read while the filtered list is
\* not empty returns its top entry, as Enter does.
C12_SpacePicksTop ==
    [][ (/\ pc = "await" /\ prompt_fn = "search_select"
         /\ key' = Char(" ")
         /\ filter(args.items, query) # <<>>
         /\ wrote' # "failed") =>
          (pc' = "returned" /\ result' = Ok(filter(args.items, query)[1]))
      ]_vars

\* the lowercase text of item starts with / contains the lowercase query
lower_starts(item, q) == starts_with(to_lowercase(item), to_lowercase(q))
lower_contains(item, q) == contains(to_lowercase(item), to_lowercase(q))

\* how many positions of s hold v
count(s, v) == Cardinality({i \in 1..Len(s) : s[i] = v})

\* C13: for a non-empty query, every element of the output of filter whose
\* lowercase text starts with the lowercase query stands before every
\* element that only contains it, and each of the two groups is the
\* corresponding group of the input, in input order.
C13_FilterOrdering ==
    (prompt_fn = "filter" /\ pc = "returned" /\ query # <<>>) =>
        LET out == result.val
            A(x) == lower_starts(x, query)
            B(x) == ~lower_starts(x, query) /\ lower_contains(x, query)
        IN /\ \A k, l \in 1..Len(out) : (A(out[k]) /\ B(out[l])) => k < l
           /\ SelectSeq(out, A) = SelectSeq(args.items, A)
           /\ SelectSeq(out, B) = SelectSeq(args.items, B)

C13_Witness ==
    /\ prompt_fn = "filter"
    /\ pc = "returned"
    /\ args.items = << <<"x", "r">>, font_Ro, <<"r">> >>
    /\ query = <<"r">>
    /\ result = Ok(<< font_Ro, <<"r">>, <<"x", "r">> >>)

C15_FilterEmptyQuery ==
    (prompt_fn = "filter" /\ pc = "returned" /\ query = <<>>) => result.val = args.items

C15_Witness ==
    /\ prompt_fn = "filter"
    /\ pc = "returned"
    /\ query = <<>>
    /\ args.items = << font_or, font_Ro, <<"O", "o">> >>
    /\ result = Ok(args.items)

\* C16: in feature_select and in the feature zone of add_widget, a second
\* press of Space or Enter right after a first one on the same unlocked item
\* row gives back the whole Selection State vector as it was before the
\* first press, and leaves the cursor on that row.
C16_ToggleTwiceRestores ==
    [][ /\ (/\ prompt_fn = "feature_select" /\ pc = "await" /\ pc' = "await"
             /\ is_toggle(key) /\ is_toggle(key')
             /\ before.cur = cursor /\ cursor < Len(args.features)
             /\ args.features[cursor + 1] \notin args.locked) =>
              (checked' = before.sel /\ cursor' = cursor)
        /\ (/\ prompt_fn = "add_widget" /\ pc = "await" /\ pc' = "await"
             /\ is_toggle(key) /\ is_toggle(key')
             /\ before.cur = add_cursor /\ add_cursor.tag = "Feature"
             /\ add_cursor.idx < Len(args.features)
             /\ args.features[add_cursor.idx + 1] \notin args.locked) =>
              (feature_checked' = before.sel /\ add_cursor' = add_cursor)
      ]_vars

\* a row that started unchecked was checked by an earlier press and is
\* unchecked again after this one
C16_Witness ==
    /\ prompt_fn = "feature_select"
    /\ args.features = <<"a", "b">> /\ args.pre_checked = {} /\ args.locked = {}
    /\ pc = "await"
    /\ is_toggle(key)
    /\ cursor = 0 /\ before.cur = 0
    /\ before.sel = <<TRUE, FALSE>>
    /\ checked = <<FALSE, FALSE>>

C16_WitnessAdd ==
    /\ prompt_fn = "add_widget"
    /\ args.features = <<"a", "b">> /\ args.locked = {"a"}
    /\ pc = "await"
    /\ is_toggle(key)
    /\ add_cursor = Feature(1) /\ before.cur = Feature(1)
    /\ before.sel = <<TRUE, TRUE>>
    /\ feature_checked = <<TRUE, FALSE>>

\* rowCount of feature_select: the items and the Action row
rowCount == Len(args.features) + 1

\* C17: in feature_select the cursor is always a row index in
\* [0, rowCount-1]; Up moves it up one row and stays on row 0, Down moves it
\* down one row and stays on the last row, and no other event moves it.
C17_CursorClamped ==
    /\ []((prompt_fn = "feature_select" /\ pc = "await") =>
             (cursor >= 0 /\ cursor <= rowCount - 1))
    /\ [][ (prompt_fn = "feature_select" /\ pc = "await" /\ pc' = "await") =>
              cursor' = IF key'.code = "Up" THEN (IF cursor = 0 THEN 0 ELSE cursor - 1)
                        ELSE IF key'.code = "Down"
                          THEN (IF cursor = rowCount - 1 THEN cursor ELSE cursor + 1)
                        ELSE cursor
          ]_vars

\* Down was pressed on the last row and the cursor stayed there
C17_Witness ==
    /\ prompt_fn = "feature_select"
    /\ Len(args.features) = 2
    /\ pc = "await"
    /\ key = Key("Down")
    /\ before.cur = 2 /\ cursor = 2

\* C18: in feature_select the Action row is drawn right after the item rows
\* in every frame; after rowCount-1 Down keys in a row, from whatever cursor
\* position and notice state, the cursor is on the Action row; Space or
\* Enter read with the cursor there returns the result.
C18_ActionRowReachable ==
    /\ []((prompt_fn = "feature_select" /\ pc = "await") =>
             /\ Len(frame) >= rowCount + 1
             /\ frame[rowCount + 1].kind = "action"
             /\ \A j \in 2..rowCount : frame[j].kind \in {"feature", "sorry"}
             /\ downs = rowCount - 1 => cursor = rowCount - 1)
    /\ [][ (/\ prompt_fn = "feature_select" /\ pc = "await"
             /\ cursor = rowCount - 1 /\ is_toggle(key') /\ wrote' # "failed") =>
              (pc' = "returned" /\ result'.tag = "Ok")
          ]_vars

\* two Down keys in a row from row 0 of a two-item list
C18_Witness ==
    /\ prompt_fn = "feature_select"
    /\ Len(args.features) = 2
    /\ pc = "await"
    /\ key = Key("Down")
    /\ downs = 2
    /\ before.cur = 1 /\ cursor = 2
    /\ frame[4].kind = "action" /\ frame[4].style = "blue"

\* the lines of a frame that show the "cannot modify" notice
notice_lines(f) == {j \in 1..Len(f) : f[j].kind \in {"sorry", "font_sorry"}}

\* the cursor of feature_select is on the row of a locked item
on_locked_row ==
    cursor < Len(args.features) /\ args.features[cursor + 1] \in args.locked

\* Space or Enter on a locked row of feature_select: the Selection State
\* and the cursor stay, the next frame shows the notice in place of that row
C19_LockedToggle ==
    (is_toggle(key') /\ on_locked_row) =>
        /\ checked' = checked /\ cursor' = cursor
        /\ notice_lines(frame') = {cursor + 2}

\* C19 as written: a locked toggle acts as in C19_LockedToggle, and when a
\* frame shows the notice, the frame drawn after the next Up, Down, Space or
\* Enter does not show it.
C19_NoticeCleared ==
    [][ (prompt_fn = "feature_select" /\ pc = "await" /\ pc' = "await") =>
          /\ C19_LockedToggle
          /\ (notice_lines(frame) # {} /\ (key'.code \in {"Up", "Down"} \/ is_toggle(key')))
                => notice_lines(frame') = {}
      ]_vars

\* C19 amended: a locked toggle acts as in C19_LockedToggle; when a frame
\* shows the notice the cursor is on that locked row, the frame drawn after
\* the next Up or Down does not show it, and the next Space or Enter, being
\* on that same row, shows it again.
C19_NoticeClearedAmended ==
    [][ (prompt_fn = "feature_select" /\ pc = "await" /\ pc' = "await") =>
          /\ C19_LockedToggle
          /\ notice_lines(frame) # {} =>
                /\ on_locked_row /\ notice_lines(frame) = {cursor + 2}
                /\ key'.code \in {"Up", "Down"} => notice_lines(frame') = {}
                /\ is_toggle(key') => notice_lines(frame') = notice_lines(frame)
      ]_vars

\* the notice stands in place of the locked second row
C19_Witness ==
    /\ prompt_fn = "feature_select"
    /\ args.features = <<"a", "b">> /\ args.locked = {"b"} /\ args.pre_checked = {}
    /\ pc = "await"
    /\ is_toggle(key)
    /\ cursor = 1
    /\ checked = <<FALSE, FALSE>> /\ before.sel = checked
    /\ frame[3].kind = "sorry"

\* the key read next is an invalid action: a toggle of a locked feature, or
\* Enter in the font search on a top match that is installed or added
invalid_action(k) ==
    \/ prompt_fn = "feature_select" /\ is_toggle(k) /\ on_locked_row
    \/ /\ prompt_fn = "add_widget" /\ add_cursor.tag = "Feature" /\ is_toggle(k)
       /\ add_cursor.idx < Len(args.features)
       /\ args.features[add_cursor.idx + 1] \in args.locked
    \/ /\ prompt_fn = "add_widget" /\ add_cursor = FontSearch /\ k.code = "Enter"
       /\ font_top # None
       /\ (font_top[1] \in Range(args.installed_fonts) \/ font_top[1] \in Range(added_fonts))

\* C20: in feature_select and add_widget a redraw shows the notice exactly
\* when the key event that caused the redraw is an invalid action; every
\* other key event, ignored keys included, causes a frame without it.
C20_OneFrameNotice ==
    [][ (/\ prompt_fn \in {"feature_select", "add_widget"}
         /\ pc = "await" /\ pc' = "await" /\ wrote' = "frame") =>
          (notice_lines(frame') # {} <=> invalid_action(key'))
      ]_vars

\* the event read by a step is a key event
is_key_event(k) == k # ReadErr /\ k # NotAKey /\ k # NoEvent

yes_key(k) == k.code = "Enter" \/ (k.code = "Char" /\ k.ch \in {"y", "Y"})
no_key(k) == k.code = "Esc" \/ (k.code = "Char" /\ k.ch \in {"n", "N"})

\* C21: confirm returns true exactly on Enter, y or Y and false exactly on
\* n, N or Esc (the write of the answer succeeding); on every other key
\* event it stays awaiting input, writes nothing and returns nothing.
C21_ConfirmAnswers ==
    [][ (prompt_fn = "confirm" /\ pc = "await") =>
          /\ result' = Ok(TRUE) => yes_key(key')
          /\ result' = Ok(FALSE) => no_key(key')
          /\ (yes_key(key') /\ wrote' # "failed") => (pc' = "returned" /\ result' = Ok(TRUE))
          /\ (no_key(key') /\ wrote' # "failed") => (pc' = "returned" /\ result' = Ok(FALSE))
          /\ (is_key_event(key') /\ ~yes_key(key') /\ ~no_key(key')) =>
               /\ pc' = "await" /\ result' = NoResult
               /\ wrote' = "nothing"
               /\ UNCHANGED <<frame, row, termVars>>
      ]_vars

C21_Witness ==
    /\ prompt_fn = "confirm"
    /\ pc = "returned"
    /\ key = Key("Esc")
    /\ result = Ok(FALSE)

C21_WitnessIgnored ==
    /\ prompt_fn = "confirm"
    /\ pc = "await"
    /\ key = Char("c")
    /\ wrote = "nothing"

\* C22: in text_input the buffer starts empty, a character key appends its
\* character, Backspace removes the last character and leaves an empty
\* buffer empty, no other key changes the buffer, and Enter (its write
\* succeeding) returns the default when the buffer is empty and the buffer
\* otherwise; nothing else returns a value.
C22_TextInputBuffer ==
    [][ prompt_fn = "text_input" =>
          /\ (pc = "entered" /\ pc' = "await") => buf' = <<>>
          /\ (pc = "await" /\ pc' = "await") =>
                buf' = IF key'.code = "Char" THEN buf \o <<key'.ch>>
                       ELSE IF key'.code = "Backspace" /\ buf # <<>>
                         THEN SubSeq(buf, 1, Len(buf) - 1)
                       ELSE buf
          /\ (pc = "await" /\ key'.code = "Enter" /\ wrote' # "failed") =>
                /\ pc' = "returned"
                /\ result' = Ok(IF buf = <<>> THEN args.default ELSE buf)
          /\ result'.tag = "Ok" => (pc = "await" /\ key'.code = "Enter")
      ]_vars

\* the default was returned for an empty buffer
C22_Witness ==
    /\ prompt_fn = "text_input"
    /\ args.default = <<"o", "r">>
    /\ pc = "returned"
    /\ key = Key("Enter")
    /\ result = Ok(<<"o", "r">>)

\* the typed text was returned although a default was given
C22_WitnessTyped ==
    /\ prompt_fn = "text_input"
    /\ args.default = <<"o", "r">>
    /\ pc = "returned"
    /\ key = Key("Enter")
    /\ result = Ok(<<"r", " ">>)

\* C23: in text_input, search_select, feature_select and add_widget (every
\* zone) an Esc key event, the redraw after it succeeding, leaves the
\* function awaiting input without a result and changes neither Selection
\* State nor the added-fonts list.
C23_EscDoesNotCancel ==
    [][ (/\ prompt_fn \in {"text_input", "search_select", "feature_select", "add_widget"}
         /\ pc = "await" /\ key'.code = "Esc" /\ wrote' # "failed") =>
          /\ pc' = "await" /\ result' = NoResult /\ exit_status' = <<>>
          /\ UNCHANGED <<checked, feature_checked, added_fonts>>
      ]_vars

\* Esc in the font search with a feature toggled and a font added
C23_Witness ==
    /\ prompt_fn = "add_widget"
    /\ args.features = <<"a", "b">> /\ args.locked = {}
    /\ pc = "await"
    /\ key = Key("Esc")
    /\ add_cursor = FontSearch
    /\ feature_checked = <<FALSE, TRUE>>
    /\ added_fonts = <<font_Ro>>

\* C24: after an Esc key event the query is empty in search_select, and in
\* the font-search zone of add_widget the query is empty and the duplicate
\* notice is off.
C24_EscClearsQuery ==
    [][ (pc = "await" /\ pc' = "await" /\ key'.code = "Esc") =>
          /\ prompt_fn = "search_select" => query' = <<>>
          /\ (prompt_fn = "add_widget" /\ add_cursor = FontSearch) =>
                (font_query' = <<>> /\ ~font_sorry')
      ]_vars

\* C25: a failed read, a failed write of a frame or of the final line, and a
\* failed RawGuard::enter each make the prompt function return an error at
\* once, the guard it holds being dropped; an error is the only thing then
\* returned, and after the return nothing more happens: no retry, no
\* further event read. (The restoring calls of the guard's drop are apart:
\* their failures are discarded.)
C25_IoFailureReturnsError ==
    [][ /\ (pc = "await" /\ key' = ReadErr) => (pc' = "returned" /\ result' = Err)
        /\ wrote' = "failed" => (pc' = "returned" /\ result' = Err)
        /\ (pc = "start" /\ pc' # "entered") => (pc' = "returned" /\ result' = Err)
        /\ (result' = Err /\ guard.state = "held") => guard'.state = "dropped"
        /\ result' = Err => pc' = "returned"
        /\ pc = "returned" => UNCHANGED vars
      ]_vars

\* the redraw after a Down key failed in feature_select
C25_Witness ==
    /\ prompt_fn = "feature_select"
    /\ pc = "returned"
    /\ key = Key("Down")
    /\ wrote = "failed"
    /\ result = Err
    /\ guard.state = "dropped"

C25_WitnessRead ==
    /\ prompt_fn = "add_widget"
    /\ pc = "returned"
    /\ key = ReadErr
    /\ result = Err
    /\ guard.state = "dropped"

\* the prompts that redraw a frame of several lines
multi_line == prompt_fn \in {"search_select", "feature_select", "add_widget"}

\* C26: in search_select, feature_select and add_widget, whenever the
\* prompt awaits a key the count carried to the next redraw equals the
\* number of rows the terminal cursor is below the first row of the first
\* frame, so every redraw starts at that row; the final line of a commit
\* is written on that row too.
C26_FrameStart ==
    /\ (multi_line /\ pc = "await") => row = last_lines
    /\ (multi_line /\ pc = "returned" /\ wrote = "final") => row = 1

\* the font-search zone was entered from the last feature row after a
\* feature was checked: the frame grew by the summary line
C26_Witness ==
    /\ prompt_fn = "add_widget"
    /\ Len(args.features) = 2
    /\ pc = "await"
    /\ key = Key("Down")
    /\ add_cursor = FontSearch
    /\ row = 3 /\ last_lines = 3
    /\ \E j \in 1..Len(frame) : frame[j].kind = "summary"

\* the count carried where the frame was drawn to its end
C27_TotalCarried ==
    /\ (prompt_fn = "feature_select" /\ pc = "await") => last_lines = Len(frame)
    /\ (prompt_fn = "add_widget" /\ pc = "await" /\ add_cursor.tag \in {"Feature", "Done"})
          => last_lines = Len(frame)
    /\ (prompt_fn = "search_select" /\ pc = "await") => last_lines = 0

\* C27 as written: the count carried between redraws equals the number of
\* lines the most recent redraw wrote, in feature_select and in every zone
\* of add_widget, search_select carrying 0.
C27_CountIsLinesWritten ==
    /\ C27_TotalCarried
    /\ (prompt_fn = "add_widget" /\ pc = "await" /\ add_cursor = FontSearch)
          => last_lines = Len(frame)

\* C27 amended: as C27_TotalCarried, and in the font-search zone of
\* add_widget the count is the number of lines above the search row, which
\* is less than the number of lines written.
C27_CountIsLinesWrittenAmended ==
    /\ C27_TotalCarried
    /\ (prompt_fn = "add_widget" /\ pc = "await" /\ add_cursor = FontSearch)
          => (last_lines = Len(args.features) + 1 /\ last_lines < Len(frame))

C27_Witness ==
    /\ prompt_fn = "add_widget"
    /\ Len(args.features) = 2
    /\ pc = "await"
    /\ add_cursor = FontSearch
    /\ last_lines = 3 /\ Len(frame) = 7

\* after a redraw in the font-search zone the terminal cursor is on the
\* search row
C28_OnSearchRow ==
    /\ row + 1 \in 1..Len(frame)
    /\ frame[row + 1].kind = "search"

\* C28 as written: after a redraw in the font-search zone of add_widget the
\* cursor is parked on the search row and the count carried is the number
\* of lines drawn from that row to the end of the frame.
C28_ParkedCount ==
    (prompt_fn = "add_widget" /\ pc = "await" /\ add_cursor = FontSearch) =>
        (C28_OnSearchRow /\ last_lines = Len(frame) - row)

\* C28 amended: after a redraw in the font-search zone of add_widget the
\* cursor is parked on the search row and the count carried is the number
\* of lines drawn above that row, so that the next move-up ends on the
\* first row of the frame.
C28_ParkedCountAmended ==
    (prompt_fn = "add_widget" /\ pc = "await" /\ add_cursor = FontSearch) =>
        (C28_OnSearchRow /\ last_lines = row /\ row - last_lines = 0)

C28_Witness ==
    /\ prompt_fn = "add_widget"
    /\ Len(args.features) = 1
    /\ pc = "await"
    /\ add_cursor = FontSearch
    /\ key = Key("Enter")
    /\ row = 2 /\ last_lines = 2
    /\ Len(frame) = 6

\* C29: while a prompt runs, the terminal cursor is hidden in feature_select
\* and in add_widget with the cursor on a feature row or on Done, and it is
\* visible in text_input, in search_select and in the font-search zone of
\* add_widget.
C29_CursorHiddenInNavZones ==
    pc = "await" =>
        /\ prompt_fn = "feature_select" => ~cursor_shown
        /\ (prompt_fn = "add_widget" /\ add_cursor.tag \in {"Feature", "Done"}) => ~cursor_shown
        /\ prompt_fn \in {"text_input", "search_select"} => cursor_shown
        /\ (prompt_fn = "add_widget" /\ add_cursor = FontSearch) => cursor_shown

\* the prompt awaits a key in a text-entry zone
text_entry_zone ==
    /\ pc = "await"
    /\ \/ prompt_fn \in {"text_input", "search_select"}
       \/ prompt_fn = "add_widget" /\ add_cursor = FontSearch

\* the text typed so far in the text-entry zone
typed_text ==
    CASE prompt_fn = "text_input" -> buf
      [] prompt_fn = "search_select" -> query
      [] OTHER -> font_query

\* the column just past the typed text: the width of what is printed before
\* the text, then the columns the text takes
text_end_col ==
    IF prompt_fn = "add_widget" THEN 2 + ADD_FONTS_LEN + columns(typed_text)
    ELSE 2 + columns(prompt) + 1 + columns(typed_text)

\* C30: after every redraw of a text-entry zone the terminal cursor column
\* is just past the typed text, the prefix width plus the length of the
\* text (the first column of the placeholder when the text is empty).
C30_CursorPastText ==
    text_entry_zone => col = text_end_col

\* the items of the result rows of a frame, top to bottom
result_rows(f) ==
    LET rows == SelectSeq(f, LAMBDA l : l.kind = "result") IN
    [i \in 1..Len(rows) |-> rows[i].item]

\* the filtered list the frame of an awaiting search zone was drawn from
filtered_now ==
    IF prompt_fn = "search_select" THEN filter(args.items, query)
    ELSE filter(args.items, font_query)

\* the first min(VISIBLE_RESULTS, n) entries of a list of n entries
capped(s) == SubSeq(s, 1, IF Len(s) <= VISIBLE_RESULTS THEN Len(s) ELSE VISIBLE_RESULTS)

\* C31 as stated: search_select and the result area of add_widget always draw
\* exactly min(6, n) result rows, the first min(6, n) entries of the filtered
\* list in order.
C31_CappedRows ==
    (pc = "await" /\ prompt_fn \in {"search_select", "add_widget"})
        => result_rows(frame) = capped(filtered_now)

\* C31 amended: search_select always, and add_widget while no duplicate
\* notice is shown, draw exactly the first min(6, n) entries of the filtered
\* list in order; while the notice is shown add_widget draws the notice line
\* and no result row. The cap is for rendering only: Enter takes the first
\* entry of the full filtered list, which is the row drawn at position 0
\* whenever result rows are drawn.
C31_CappedRowsAmended ==
    [][ /\ (pc' = "await" /\ prompt_fn \in {"search_select", "add_widget"})
            => IF prompt_fn = "add_widget" /\ font_sorry'
                 THEN /\ result_rows(frame') = <<>>
                      /\ \E j \in 1..Len(frame') : frame'[j].kind = "font_sorry"
                 ELSE result_rows(frame') =
                        capped(filter(args.items,
                                      IF prompt_fn = "search_select" THEN query'
                                      ELSE font_query'))
        /\ (pc = "await" /\ prompt_fn = "search_select" /\ pc' = "returned"
              /\ result'.tag = "Ok")
            => /\ result'.val = filter(args.items, query)[1]
               /\ result'.val = result_rows(frame)[1]
        /\ (pc = "await" /\ prompt_fn = "add_widget" /\ Len(added_fonts') > Len(added_fonts))
            => /\ added_fonts' = Append(added_fonts, filter(args.items, font_query)[1])
               /\ result_rows(frame) # <<>>
                    => result_rows(frame)[1] = filter(args.items, font_query)[1]
      ]_vars

\* more entries match than are drawn, and Enter takes the top one
C31_Witness ==
    /\ prompt_fn = "search_select"
    /\ pc = "returned"
    /\ key = Key("Enter")
    /\ Len(args.items) > VISIBLE_RESULTS
    /\ query = <<>>
    /\ result = Ok(args.items[1])

\* add_widget shows the notice in place of the results of a long list
C31_WitnessNotice ==
    /\ prompt_fn = "add_widget"
    /\ pc = "await"
    /\ font_sorry
    /\ Len(filter(args.items, font_query)) > VISIBLE_RESULTS
    /\ result_rows(frame) = <<>>

\* the Selection State pre_checked asks for, in input item order
pre_checked_state == [j \in 1..Len(args.features) |-> args.features[j] \in args.pre_checked]

\* the pre-checked keys present in features, in input item order
pre_checked_keys == SelectSeq(args.features, LAMBDA f : f \in args.pre_checked)

\* row i + 1 holds a pre-checked, unlocked item and is the only row whose
\* Selection State differs from the initial one
toggled_once(chk, i) ==
    /\ args.features[i + 1] \in args.pre_checked \ args.locked
    /\ chk = [pre_checked_state EXCEPT ![i + 1] = FALSE]

\* C32: in feature_select the initial Selection State of each item is its
\* key's membership in pre_checked, indexed in input item order; a commit on
\* the initial Selection State returns exactly the pre-checked keys present
\* in features; one toggle on a pre-checked unlocked item unchecks it and a
\* commit then leaves it out of the result.
C32_PreChecked ==
    [][ prompt_fn = "feature_select" =>
          /\ (pc = "entered" /\ pc' = "await") => checked' = pre_checked_state
          /\ (pc = "await" /\ pc' = "returned" /\ result'.tag = "Ok"
                /\ checked = pre_checked_state)
              => result'.val = pre_checked_keys
          /\ (pc = "await" /\ pc' = "await" /\ is_toggle(key')
                /\ checked = pre_checked_state /\ cursor < Len(args.features)
                /\ args.features[cursor + 1] \in args.pre_checked \ args.locked)
              => toggled_once(checked', cursor)
          /\ (pc = "await" /\ pc' = "returned" /\ result'.tag = "Ok")
              => \A i \in 0..(Len(args.features) - 1) :
                    toggled_once(checked, i)
                       => args.features[i + 1] \notin Range(result'.val)
      ]_vars

\* a pre-checked item was toggled off and the commit leaves it out, while the
\* other pre-checked item is returned
C32_Witness ==
    /\ prompt_fn = "feature_select"
    /\ pc = "returned"
    /\ args.features = <<"a", "b">>
    /\ args.pre_checked = {"a", "b"}
    /\ args.locked = {}
    /\ result = Ok(<<"b">>)

\* a commit on the initial Selection State returns the pre-checked keys
C32_WitnessUntouched ==
    /\ prompt_fn = "feature_select"
    /\ pc = "returned"
    /\ args.features = <<"a", "b">>
    /\ args.pre_checked = {"b"}
    /\ args.locked = {}
    /\ result = Ok(pre_checked_keys)

\* the value a prompt function returns when it commits on key k
value_of(k) ==
    CASE prompt_fn = "confirm" -> confirm_answer(k)[1]
      [] prompt_fn = "text_input" -> text_input_result(buf, args.default)
      [] prompt_fn = "search_select" -> search_select_result(args.items, query)[1]
      [] prompt_fn = "feature_select" -> feature_select_result(args.features, checked)
      [] OTHER -> AddResult(args.features, feature_checked, args.locked, added_fonts)

\* C33: the release of the guard ignores restoration failures: raw mode is
\* left on only when disable_raw_mode itself failed, whether or not showing
\* the cursor failed before it, and what the prompt function returns is the
\* value of its commit, or the error of its failed read or write, whatever
\* failed during the release.
C33_RestoreFailureIgnored ==
    [][ (guard.state = "held" /\ guard'.state = "dropped") =>
          /\ "disable" \notin restore_failed' => ~raw_mode'
          /\ (guard.cursor_hidden /\ "show" \notin restore_failed') => cursor_shown'
          /\ pc' = "returned"
               => result' = IF wrote' = "final" THEN Ok(value_of(key')) ELSE Err
      ]_vars

\* showing the cursor failed, raw mode was disabled all the same, and the
\* committed value was returned
C33_Witness ==
    /\ pc = "returned"
    /\ guard = [state |-> "dropped", cursor_hidden |-> TRUE]
    /\ restore_failed = {"show"}
    /\ ~cursor_shown
    /\ ~raw_mode
    /\ result.tag = "Ok"
    /\ result.val # <<>>

\* both restoring calls failed and the error of the failed write is returned
C33_WitnessBoth ==
    /\ pc = "returned"
    /\ restore_failed = {"show", "disable"}
    /\ wrote = "failed"
    /\ result = Err

\* the result rows of a frame, top to bottom
result_lines(f) == SelectSeq(f, LAMBDA l : l.kind = "result")

\* C34: whenever Enter in the font-search zone of add_widget appends a font
\* to the added-fonts list, that font is the highlighted first result row of
\* the frame that was on the screen when the key was pressed.
C34_AddedFontWasShown ==
    [][ (/\ pc = "await" /\ prompt_fn = "add_widget"
         /\ Len(added_fonts') > Len(added_fonts)) =>
          /\ result_lines(frame) # <<>>
          /\ result_lines(frame)[1].item = added_fonts'[Len(added_fonts')]
          /\ result_lines(frame)[1].style = "blue"
      ]_vars

\* C35: in every reachable state, sorry_index = Some(i) in feature_select
\* implies that the cursor is on row i and item i is locked; in add_widget
\* sorry_feature = Some(i) implies cursor = Feature(i) and feature i locked,
\* and font_sorry implies that the cursor is in the font-search zone and the
\* query is empty.
C35_NoticeState ==
    /\ sorry_index # None
         => /\ prompt_fn = "feature_select"
            /\ cursor = sorry_index[1]
            /\ sorry_index[1] < Len(args.features)
            /\ args.features[sorry_index[1] + 1] \in args.locked
    /\ sorry_feature # None
         => /\ prompt_fn = "add_widget"
            /\ add_cursor = Feature(sorry_feature[1])
            /\ sorry_feature[1] < Len(args.features)
            /\ args.features[sorry_feature[1] + 1] \in args.locked
    /\ font_sorry
         => /\ prompt_fn = "add_widget"
            /\ add_cursor = FontSearch
            /\ font_query = <<>>

\* the font notice is still set after a key that the font search ignores
C35_Witness ==
    /\ prompt_fn = "add_widget"
    /\ pc = "await"
    /\ font_sorry
    /\ key = Key("Tab")

\* the notice of a locked row is set in feature_select, on the second row
C35_WitnessIndex ==
    /\ prompt_fn = "feature_select"
    /\ pc = "await"
    /\ sorry_index = Some(1)

\* the notice of a locked feature is set in add_widget
C35_WitnessFeature ==
    /\ prompt_fn = "add_widget"
    /\ pc = "await"
    /\ sorry_feature = Some(0)
    /\ key = Key("Backspace")

\* s is a prefix of t
is_prefix(s, t) == Len(s) <= Len(t) /\ SubSeq(t, 1, Len(s)) = s

\* C36: in every reachable state of add_widget the added-fonts list has no
\* name twice, no name of installed_fonts and only names of font_items, and
\* it is append-only: as long as the widget runs, every step leaves the
\* list it found as a prefix of the list it leaves.
C36_AddedFonts ==
    [][ prompt_fn = "add_widget" =>
          /\ \A i, j \in 1..Len(added_fonts') :
                added_fonts'[i] = added_fonts'[j] => i = j
          /\ \A i \in 1..Len(added_fonts') :
                /\ added_fonts'[i] \notin Range(args.installed_fonts)
                /\ added_fonts'[i] \in Range(args.items)
          /\ pc' = "await" => is_prefix(added_fonts, added_fonts')
          /\ (pc' = "returned" /\ result'.tag = "Ok") => result'.val.fonts = added_fonts
      ]_vars

\* two fonts were added next to an installed one
C36_Witness ==
    /\ prompt_fn = "add_widget"
    /\ pc = "await"
    /\ args.installed_fonts = <<font_Ro>>
    /\ Len(added_fonts) = 2

\* C37: in feature_select Up, Down, Esc and every unrecognised key leave the
\* whole Selection State unchanged; a toggle (Space or Enter on an item row)
\* changes at most the Selection State of the row under the cursor and
\* never moves the cursor.
C37_FeatureSelectFrame ==
    [][ (/\ prompt_fn = "feature_select" /\ pc = "await" /\ pc' = "await"
         /\ is_key_event(key')) =>
          /\ ~is_toggle(key') => checked' = checked
          /\ is_toggle(key') =>
                /\ cursor' = cursor
                /\ cursor < Len(args.features)
                /\ Len(checked') = Len(checked)
                /\ \A j \in 1..Len(checked) : j # cursor + 1 => checked'[j] = checked[j]
      ]_vars

\* a toggle on the second row changed that row only and kept the cursor
C37_Witness ==
    /\ prompt_fn = "feature_select"
    /\ pc = "await"
    /\ key = Char(" ")
    /\ args.pre_checked = {"a"}
    /\ args.locked = {}
    /\ cursor = 1
    /\ before = [sel |-> <<TRUE, FALSE>>, cur |-> 1]
    /\ checked = <<TRUE, TRUE>>

\* an unrecognised key and Esc after a toggle: the Selection State stays
C37_WitnessIgnored ==
    /\ prompt_fn = "feature_select"
    /\ pc = "await"
    /\ key \in {Key("Tab"), Key("Esc"), Char("r")}
    /\ args.pre_checked = {}
    /\ before = [sel |-> <<TRUE>>, cur |-> 0]
    /\ checked = <<TRUE>>

\* C38: zone isolation in add_widget: a key event handled in the feature
\* zone never changes the font query or the added-fonts list; a key event in
\* the font-search zone never changes the Selection State of a feature; a
\* key event in the Done zone that does not commit changes nothing of the
\* widget's state but, possibly, the cursor.
C38_ZoneIsolation ==
    [][ (/\ prompt_fn = "add_widget" /\ pc = "await" /\ pc' = "await"
         /\ is_key_event(key')) =>
          /\ add_cursor.tag = "Feature"
               => font_query' = font_query /\ added_fonts' = added_fonts
          /\ add_cursor.tag = "FontSearch" => feature_checked' = feature_checked
          /\ add_cursor.tag = "Done"
               => /\ ~is_toggle(key')
                  /\ UNCHANGED <<feature_checked, font_query, added_fonts, sorry_feature,
                                 font_sorry>>
      ]_vars

\* Backspace in the feature zone left the typed query and the added font
C38_Witness ==
    /\ prompt_fn = "add_widget"
    /\ pc = "await"
    /\ add_cursor.tag = "Feature"
    /\ key = Key("Backspace")
    /\ font_query = <<"r">>
    /\ added_fonts # <<>>

\* a character typed in the font search left the toggled feature checked
C38_WitnessFont ==
    /\ prompt_fn = "add_widget"
    /\ pc = "await"
    /\ add_cursor = FontSearch
    /\ key = Char(" ")
    /\ args.locked = {}
    /\ feature_checked = <<TRUE>>

\* an ignored key in the Done zone
C38_WitnessDone ==
    /\ prompt_fn = "add_widget"
    /\ pc = "await"
    /\ add_cursor = Done
    /\ key = Key("Esc")
    /\ font_query # <<>>

\* the number of Down keys that take the cursor of add_widget to the Done
\* zone: two from the last feature row, one more for each row above it
downs_to_done(cur) ==
    CASE cur.tag = "Done" -> 0
      [] cur.tag = "FontSearch" -> 1
      [] OTHER -> 2 + (IF cur.idx + 1 < Len(args.features)
                         THEN Len(args.features) - 1 - cur.idx ELSE 0)

\* every Down of add_widget brings the cursor one row nearer to the Done zone
C39_DownStep ==
    [][ (/\ prompt_fn = "add_widget" /\ pc = "await" /\ pc' = "await"
         /\ key' = Key("Down")) =>
          downs_to_done(add_cursor') =
              IF add_cursor = Done THEN 0 ELSE downs_to_done(add_cursor) - 1
      ]_vars

\* C39: add_widget can always be completed: in every reachable state, for
\* every feature list, the empty one included, at most (number of features
\* + 1) Down keys place the cursor in the Done zone, each Down bringing it
\* one row nearer, and Enter in the Done zone makes the function return.
C39_AlwaysCompletable ==
    [][ prompt_fn = "add_widget" =>
          /\ pc' = "await" => downs_to_done(add_cursor') <= Len(args.features) + 1
          /\ (pc = "await" /\ pc' = "await" /\ key' = Key("Down")) =>
                downs_to_done(add_cursor') =
                    IF add_cursor = Done THEN 0 ELSE downs_to_done(add_cursor) - 1
          /\ (pc = "await" /\ add_cursor = Done /\ key' = Key("Enter")) => pc' = "returned"
      ]_vars

\* q2 is q with one more character typed
one_more(q, q2) == Len(q2) = Len(q) + 1 /\ SubSeq(q2, 1, Len(q)) = q

\* C40: filter is idempotent and refines monotonically: filtering the
\* output of filter(items, q) by q again gives the same list, and every
\* element of filter(items, q + c) is an element of filter(items, q).
C40_FilterRefines ==
    (prompt_fn = "filter" /\ pc = "returned") =>
        /\ filter(result.val, query) = result.val
        /\ \A q2 \in FilterQueries :
              one_more(query, q2) => Range(filter(args.items, q2)) \subseteq Range(result.val)

=============================================================================
